---- MODULE Spec2Model ----
(***************************************************************************)
(* Model of tsz.go: the Gorilla time-series encoder (Series) and decoder   *)
(* (Iter) over a big-endian bit stream.                                    *)
(*                                                                         *)
(* Numbers keep their width.  A uint32 is a sequence of 32 bits and a      *)
(* uint64 / float64 bit pattern is a sequence of 64 bits, most significant *)
(* bit first, so that wrap-around, truncation to a field width and shifts  *)
(* are what the Go code computes.  A float64 is held as its bit pattern    *)
(* (math.Float64bits / math.Float64frombits are inverse bijections).       *)
(* The fields leading and trailing (uint64 in the code) hold small counts; *)
(* they are integers here, a negative integer n standing for the wrapped   *)
(* value 2^64 + n (so -1 is ^uint64(0)).                                   *)
(***************************************************************************)
EXTENDS Integers, Sequences, FiniteSets, TLC

\* ------------------------------------------------------------------ bounds

\* Most Push calls explored on one Series.
MaxPush == 3

\* Most trailing bytes cut off the encoder's bytes before they are decoded.
MaxDrop == 1

\* Most free bytes behind the fixed head of a byte sequence given to
\* NewIterator that no encoder wrote.
MaxTail == 5

\* ------------------------------------------------------- program constants

HeaderBits == 32
FirstDeltaBits == 14
ValueBits == 64
LeadingBits == 5
SigBits == 6

\* ------------------------------------------------------------ bit vectors

Zeros(n) == [i \in 1..n |-> 0]

Ones(n) == [i \in 1..n |-> 1]

\* The w-bit pattern of the natural number n < 2^31 (w may exceed 31).
FromNat(n, w) == [i \in 1..w |-> IF w - i > 30 THEN 0 ELSE (n \div 2^(w - i)) % 2]

\* The natural number a bit pattern of at most 31 bits stands for.
RECURSIVE ToNat(_)
ToNat(bv) ==
    IF Len(bv) = 0 THEN 0
    ELSE 2 * ToNat(SubSeq(bv, 1, Len(bv) - 1)) + bv[Len(bv)]

U32(n) == FromNat(n, 32)

U64(n) == FromNat(n, 64)

\* A 64-bit pattern given as four 16-bit limbs, most significant first.
V64(a, b, c, d) == FromNat(a, 16) \o FromNat(b, 16) \o FromNat(c, 16) \o FromNat(d, 16)

Zero32 == Zeros(32)

Zero64 == Zeros(64)

\* a + b mod 2^32 (uint32 addition), by 16-bit limbs.
Add32(a, b) ==
    LET lo == ToNat(SubSeq(a, 17, 32)) + ToNat(SubSeq(b, 17, 32))
        hi == ToNat(SubSeq(a, 1, 16)) + ToNat(SubSeq(b, 1, 16)) + lo \div 65536
    IN  FromNat(hi % 65536, 16) \o FromNat(lo % 65536, 16)

\* a - b mod 2^32 (uint32 subtraction), by 16-bit limbs.
Sub32(a, b) ==
    LET la == ToNat(SubSeq(a, 17, 32))
        lb == ToNat(SubSeq(b, 17, 32))
        hi == ToNat(SubSeq(a, 1, 16)) - ToNat(SubSeq(b, 1, 16)) - (IF la < lb THEN 1 ELSE 0)
    IN  FromNat(hi % 65536, 16) \o FromNat((la - lb) % 65536, 16)

\* int32(x): the two's-complement value of a 32-bit pattern.
ToInt32(a) ==
    LET low == ToNat(SubSeq(a, 2, 32))
    IN  IF a[1] = 1 THEN (low - 1073741824) - 1073741824 ELSE low

\* uint32(x) of an int32: its 32-bit two's-complement pattern.
FromInt32(n) ==
    IF n >= 0 THEN U32(n)
    ELSE <<1>> \o FromNat((n + 1073741824) + 1073741824, 31)

\* uint64(x) of a uint32: zero extension.
ZeroExt64(a) == Zeros(64 - Len(a)) \o a

\* uint64(x) of an int32 held as its 32-bit pattern: sign extension.
SignExt64(a) == [i \in 1..32 |-> a[1]] \o a

\* uint32(x) of a uint64: the low 32 bits.
Low32(u) == SubSeq(u, 33, 64)

Xor64(a, b) == [i \in 1..64 |-> (a[i] + b[i]) % 2]

\* bits.Clz: leading zero bits of a 64-bit pattern (64 for zero).
Clz(u) ==
    IF u = Zero64 THEN 64
    ELSE (CHOOSE i \in 1..64 : u[i] = 1 /\ \A j \in 1..(i - 1) : u[j] = 0) - 1

\* bits.Ctz: trailing zero bits of a 64-bit pattern (64 for zero).
Ctz(u) ==
    IF u = Zero64 THEN 64
    ELSE 64 - (CHOOSE i \in 1..64 : u[i] = 1 /\ \A j \in (i + 1)..64 : u[j] = 0)

\* u >> n on uint64; a count outside 0..63 gives 0, as Go defines it.
Shr64(u, n) ==
    IF n < 0 \/ n > 63 THEN Zero64
    ELSE Zeros(n) \o SubSeq(u, 1, 64 - n)

\* u << n on uint64; a count outside 0..63 gives 0, as Go defines it.
Shl64(u, n) ==
    IF n < 0 \/ n > 63 THEN Zero64
    ELSE SubSeq(u, n + 1, 64) \o Zeros(n)

\* --------------------------------------------------------------- BitWriter
\* The writer holds the bits of an unfinished byte (bw) and hands every
\* completed byte to the buffer (buf), so buf is always whole bytes.

\* Append the bit sequence x to the writer of series s.
Emit(s, x) ==
    LET all == s.bw \o x
        k == (Len(all) \div 8) * 8
    IN  [s EXCEPT !.buf = s.buf \o SubSeq(all, 1, k),
                  !.bw = SubSeq(all, k + 1, Len(all))]

WriteBit(s, bit) == Emit(s, <<bit>>)

\* The low nbits bits of u, most significant first; nothing for nbits <= 0.
WriteBits(s, u, nbits) ==
    IF nbits <= 0 THEN s ELSE Emit(s, SubSeq(u, 65 - nbits, 64))

\* Complete a pending byte with the pad bit; nothing when none is pending.
Flush(s, bit) ==
    IF Len(s.bw) = 0 THEN s ELSE Emit(s, [i \in 1..(8 - Len(s.bw)) |-> bit])

\* ------------------------------------------------------------------ Series

Sentinel == 0 - 1

\* New with the header cut to the low 16 bits of t0.
NewNarrowHeader(t0) ==
    WriteBits([t0 |-> t0, tDelta |-> Zero32, t |-> Zero32, val |-> Zero64,
               leading |-> Sentinel, trailing |-> 0,
               buf |-> <<>>, bw |-> <<>>, finished |-> FALSE],
              ZeroExt64(t0), 16)

New(t0) ==
    WriteBits([t0 |-> t0, tDelta |-> Zero32, t |-> Zero32, val |-> Zero64,
               leading |-> Sentinel, trailing |-> 0,
               buf |-> <<>>, bw |-> <<>>, finished |-> FALSE],
              ZeroExt64(t0), HeaderBits)

Bytes(s) == s.buf

\* Finish without the finished guard: the marker is written on every call.
SeriesFinishUnguarded(s) ==
    LET s1 == WriteBits(s, U64(15), 4)
        s2 == WriteBits(s1, ZeroExt64(Ones(32)), 32)
        s3 == WriteBit(s2, 0)
        s4 == Flush(s3, 0)
    IN  [s4 EXCEPT !.finished = TRUE]

SeriesFinish(s) ==
    IF ~s.finished
    THEN LET s1 == WriteBits(s, U64(15), 4)
             s2 == WriteBits(s1, ZeroExt64(Ones(32)), 32)
             s3 == WriteBit(s2, 0)
             s4 == Flush(s3, 0)
         IN  [s4 EXCEPT !.finished = TRUE]
    ELSE s

\* The delta-of-delta record of Push: prefix and payload by tier.
WriteDod(s, dodBits) ==
    LET dod == ToInt32(dodBits)
        u == SignExt64(dodBits)
    IN  IF dod = 0 THEN WriteBit(s, 0)
        ELSE IF 0 - 63 <= dod /\ dod <= 64
             THEN WriteBits(WriteBits(s, U64(2), 2), u, 7)
        ELSE IF 0 - 255 <= dod /\ dod <= 256
             THEN WriteBits(WriteBits(s, U64(6), 3), u, 9)
        ELSE IF 0 - 2047 <= dod /\ dod <= 2048
             THEN WriteBits(WriteBits(s, U64(14), 4), u, 12)
        ELSE WriteBits(WriteBits(s, U64(15), 4), u, 32)

\* The value record with the control bit of an unchanged value left out.
WriteValueNoZeroBit(s, v) ==
    LET vDelta == Xor64(v, s.val)
    IN  IF vDelta = Zero64 THEN s
        ELSE LET s1 == WriteBit(s, 1)
                 leading == Clz(vDelta)
                 trailing == Ctz(vDelta)
             IN  IF s.leading # Sentinel /\ leading >= s.leading /\ trailing >= s.trailing
                 THEN WriteBits(WriteBit(s1, 0), Shr64(vDelta, s.trailing),
                                64 - s.leading - s.trailing)
                 ELSE LET s2 == [s1 EXCEPT !.leading = leading, !.trailing = trailing]
                          s3 == WriteBits(WriteBit(s2, 1), U64(leading), LeadingBits)
                          sigbits == 64 - leading - trailing
                          s4 == WriteBits(s3, U64(sigbits), SigBits)
                      IN  WriteBits(s4, Shr64(vDelta, trailing), sigbits)

\* The value record without the test for an unchanged value: a zero XOR is
\* encoded like any other.
WriteValueZeroAsWindow(s, v) ==
    LET vDelta == Xor64(v, s.val)
        s1 == WriteBit(s, 1)
        leading == Clz(vDelta)
        trailing == Ctz(vDelta)
    IN  IF s.leading # Sentinel /\ leading >= s.leading /\ trailing >= s.trailing
        THEN WriteBits(WriteBit(s1, 0), Shr64(vDelta, s.trailing),
                       64 - s.leading - s.trailing)
        ELSE LET s2 == [s1 EXCEPT !.leading = leading, !.trailing = trailing]
                 s3 == WriteBits(WriteBit(s2, 1), U64(leading), LeadingBits)
                 sigbits == 64 - leading - trailing
                 s4 == WriteBits(s3, U64(sigbits), SigBits)
             IN  WriteBits(s4, Shr64(vDelta, trailing), sigbits)

\* The value record of Push: XOR with the previous value.
WriteValue(s, v) ==
    LET vDelta == Xor64(v, s.val)
    IN  IF vDelta = Zero64 THEN WriteBit(s, 0)
        ELSE LET s1 == WriteBit(s, 1)
                 leading == Clz(vDelta)
                 trailing == Ctz(vDelta)
             IN  IF s.leading # Sentinel /\ leading >= s.leading /\ trailing >= s.trailing
                 THEN WriteBits(WriteBit(s1, 0), Shr64(vDelta, s.trailing),
                                64 - s.leading - s.trailing)
                 ELSE LET s2 == [s1 EXCEPT !.leading = leading, !.trailing = trailing]
                          s3 == WriteBits(WriteBit(s2, 1), U64(leading), LeadingBits)
                          sigbits == 64 - leading - trailing
                          s4 == WriteBits(s3, U64(sigbits), SigBits)
                      IN  WriteBits(s4, Shr64(vDelta, trailing), sigbits)

SeriesPush(s, t, v) ==
    IF s.t = Zero32
    THEN LET tDelta == Sub32(t, s.t0)
             s1 == [s EXCEPT !.t = t, !.val = v, !.tDelta = tDelta]
         IN  WriteBits(WriteBits(s1, ZeroExt64(tDelta), FirstDeltaBits), v, ValueBits)
    ELSE LET tDelta == Sub32(t, s.t)
             s1 == WriteDod(s, Sub32(tDelta, s.tDelta))
             s2 == WriteValue(s1, v)
         IN  [s2 EXCEPT !.tDelta = tDelta, !.t = t, !.val = v]

\* --------------------------------------------------------------- BitReader
\* The reader is the sequence of bits not yet consumed.  A read of a whole
\* byte needs eight more bits; a failed read keeps what it had consumed.

Nil == "nil"

EOF == "EOF"

ReadBit(br) ==
    IF Len(br) = 0 THEN [err |-> EOF, bit |-> 0, br |-> br]
    ELSE [err |-> Nil, bit |-> br[1], br |-> Tail(br)]

\* nbits bits, most significant first, in the low bits of a uint64: whole
\* bytes while nbits >= 8, then single bits.
ReadBits(br, nbits) ==
    LET whole == (Len(br) \div 8) * 8
    IN  IF nbits <= 0 THEN [err |-> Nil, u |-> Zero64, br |-> br]
        ELSE IF (nbits \div 8) * 8 > whole
             THEN [err |-> EOF, u |-> Zero64, br |-> SubSeq(br, whole + 1, Len(br))]
        ELSE IF nbits > Len(br)
             THEN [err |-> EOF, u |-> Zero64, br |-> <<>>]
        ELSE [err |-> Nil, u |-> ZeroExt64(SubSeq(br, 1, nbits)),
              br |-> SubSeq(br, nbits + 1, Len(br))]

\* -------------------------------------------------------------------- Iter

\* The nil *Iter that NewIterator returns with an error.
NilIter ==
    [t0 |-> Zero32, tDelta |-> Zero32, t |-> Zero32, val |-> Zero64,
     leading |-> 0, trailing |-> 0, br |-> <<>>, finished |-> FALSE, err |-> Nil]

\* NewIterator reading a 24-bit header.
NewIteratorShortHeader(b) ==
    LET r == ReadBits(b, 24)
    IN  IF r.err # Nil THEN [it |-> NilIter, err |-> r.err]
        ELSE [it |-> [NilIter EXCEPT !.t0 = Low32(r.u), !.br = r.br], err |-> Nil]

NewIterator(b) ==
    LET r == ReadBits(b, HeaderBits)
    IN  IF r.err # Nil THEN [it |-> NilIter, err |-> r.err]
        ELSE [it |-> [NilIter EXCEPT !.t0 = Low32(r.u), !.br = r.br], err |-> Nil]

\* Series.Iter: an iterator over the bytes written so far.
SeriesIter(s) == NewIterator(Bytes(s))

\* A read failed inside Next: latch the error, keep what was consumed.
Fail(it, r) == [it |-> [it EXCEPT !.br = r.br, !.err = r.err], ret |-> FALSE]

\* The first record: 14 bits of delta against t0, then the raw value.
NextFirst(it) ==
    LET r1 == ReadBits(it.br, FirstDeltaBits)
    IN  IF r1.err # Nil THEN Fail(it, r1)
        ELSE LET tDelta == Low32(r1.u)
                 it1 == [it EXCEPT !.br = r1.br, !.tDelta = tDelta,
                                   !.t = Add32(it.t0, tDelta)]
                 r2 == ReadBits(it1.br, ValueBits)
             IN  IF r2.err # Nil THEN Fail(it1, r2)
                 ELSE [it |-> [it1 EXCEPT !.br = r2.br, !.val = r2.u], ret |-> TRUE]

\* The prefix loop: up to four bits, stopping after the first zero bit.
RECURSIVE ReadPrefix(_, _, _)
ReadPrefix(br, i, d) ==
    IF i >= 4 THEN [err |-> Nil, d |-> d, br |-> br]
    ELSE LET r == ReadBit(br)
         IN  IF r.err # Nil THEN [err |-> r.err, d |-> d, br |-> r.br]
             ELSE IF r.bit = 0 THEN [err |-> Nil, d |-> (2 * d) % 256, br |-> r.br]
             ELSE ReadPrefix(r.br, i + 1, ((2 * d) % 256) + 1)

\* The payload width of a delta-of-delta prefix (0x0f is read apart).
DodSize(d) ==
    IF d = 2 THEN 7 ELSE IF d = 6 THEN 9 ELSE IF d = 14 THEN 12 ELSE 0

\* The sign rule of the 7, 9 and 12 bit payloads, as int32.
DodSigned(u, sz) ==
    LET bits == ToNat(SubSeq(u, 65 - sz, 64))
    IN  IF bits > 2^(sz - 1) THEN bits - 2^sz ELSE bits

\* The value record: control bits, window, significant bits.
NextValue(it) ==
    LET r1 == ReadBit(it.br)
    IN  IF r1.err # Nil THEN Fail(it, r1)
        ELSE IF r1.bit = 0 THEN [it |-> [it EXCEPT !.br = r1.br], ret |-> TRUE]
        ELSE
        LET r2 == ReadBit(r1.br)
        IN  IF r2.err # Nil THEN Fail(it, r2)
            ELSE
            LET r3 == ReadBits(r2.br, LeadingBits)
                leading == ToNat(SubSeq(r3.u, 34, 64))
                r4 == ReadBits(r3.br, SigBits)
                mbits == ToNat(SubSeq(r4.u, 34, 64))
                w == IF r2.bit = 0 THEN [err |-> Nil, it |-> [it EXCEPT !.br = r2.br]]
                     ELSE IF r3.err # Nil
                          THEN [err |-> r3.err, it |-> [it EXCEPT !.br = r3.br]]
                     ELSE IF r4.err # Nil
                          THEN [err |-> r4.err,
                                it |-> [it EXCEPT !.br = r4.br, !.leading = leading]]
                     ELSE [err |-> Nil,
                           it |-> [it EXCEPT !.br = r4.br, !.leading = leading,
                                             !.trailing = 64 - leading - mbits]]
            IN  IF w.err # Nil THEN [it |-> [w.it EXCEPT !.err = w.err], ret |-> FALSE]
                ELSE
                LET r5 == ReadBits(w.it.br, 64 - w.it.leading - w.it.trailing)
                IN  IF r5.err # Nil THEN Fail(w.it, r5)
                    ELSE [it |-> [w.it EXCEPT !.br = r5.br,
                                    !.val = Xor64(w.it.val, Shl64(r5.u, w.it.trailing))],
                          ret |-> TRUE]

\* A later record read without latching the end of the stream: the marker
\* returns false and finished stays unset.
NextDeltaMarkerNotLatched(it) ==
    LET p == ReadPrefix(it.br, 0, 0)
    IN  IF p.err # Nil THEN Fail(it, p)
        ELSE
        LET sz == DodSize(p.d)
            r == IF p.d = 15 THEN ReadBits(p.br, 32) ELSE ReadBits(p.br, sz)
        IN  IF r.err # Nil THEN Fail(it, r)
            ELSE IF p.d = 15 /\ r.u = ZeroExt64(Ones(32))
                 THEN [it |-> [it EXCEPT !.br = r.br], ret |-> FALSE]
            ELSE
            LET dod == IF p.d = 15 THEN Low32(r.u)
                       ELSE IF sz # 0 THEN FromInt32(DodSigned(r.u, sz))
                       ELSE Zero32
                tDelta == Add32(it.tDelta, dod)
            IN  NextValue([it EXCEPT !.br = r.br, !.tDelta = tDelta,
                                     !.t = Add32(it.t, tDelta)])

\* A later record: delta-of-delta (or the end-of-stream marker), then value.
NextDelta(it) ==
    LET p == ReadPrefix(it.br, 0, 0)
    IN  IF p.err # Nil THEN Fail(it, p)
        ELSE
        LET sz == DodSize(p.d)
            r == IF p.d = 15 THEN ReadBits(p.br, 32) ELSE ReadBits(p.br, sz)
        IN  IF r.err # Nil THEN Fail(it, r)
            ELSE IF p.d = 15 /\ r.u = ZeroExt64(Ones(32))
                 THEN [it |-> [it EXCEPT !.br = r.br, !.finished = TRUE], ret |-> FALSE]
            ELSE
            LET dod == IF p.d = 15 THEN Low32(r.u)
                       ELSE IF sz # 0 THEN FromInt32(DodSigned(r.u, sz))
                       ELSE Zero32
                tDelta == Add32(it.tDelta, dod)
            IN  NextValue([it EXCEPT !.br = r.br, !.tDelta = tDelta,
                                     !.t = Add32(it.t, tDelta)])

\* Next without the check of the latched error.
IterNextIgnoresErr(it) ==
    IF it.finished THEN [it |-> it, ret |-> FALSE]
    ELSE IF it.t = Zero32 THEN NextFirst(it)
    ELSE NextDelta(it)

\* Next without the check of the finished flag.
IterNextIgnoresFinished(it) ==
    IF it.err # Nil THEN [it |-> it, ret |-> FALSE]
    ELSE IF it.t = Zero32 THEN NextFirst(it)
    ELSE NextDelta(it)

IterNext(it) ==
    IF it.err # Nil \/ it.finished THEN [it |-> it, ret |-> FALSE]
    ELSE IF it.t = Zero32 THEN NextFirst(it)
    ELSE NextDelta(it)

Values(it) == <<it.t, it.val>>

Err(it) == it.err

\* ------------------------------------------------------------------ inputs

\* Block anchors given to New.
T0s == {U32(1000)}

\* float64 1.0, 1.5, 1.0000000000000002 (1.0 with its lowest bit set) and
\* -3.9999999999999996 (every bit of 1.0 inverted).
F1_0 == V64(16368, 0, 0, 0)

F1_5 == V64(16376, 0, 0, 0)

F1_0e == V64(16368, 0, 0, 1)

FNot1 == V64(49167, 65535, 65535, 65535)

\* Samples given to Push.
Samples ==
    { <<U32(0), F1_0>>, <<U32(1020), F1_0>>, <<U32(1020), F1_5>>,
      <<U32(1120), F1_0e>>, <<U32(5000), FNot1>> }

\* ------------------------------------------------------------ state machine
\* One Series and one Iter.  An iterator reads a byte slice of fixed length
\* that later encoder calls only append behind, so nothing the encoder does
\* after NewIterator can reach it: the model makes the iterator after the
\* encoder calls, at any point of the encoder's life (finished or not).
\* s       the Series
\* it      the Iter (NilIter until one is made)
\* made    "none", "ok" (NewIterator returned an iterator) or "err"
\* b       the number of bytes the iterator was made from
\* pushed  the samples given to Push, in order
\* legal   the Push calls so far met the encoder's preconditions
\* yielded Values() after each Next that returned true, in order
\* ret     what the last Next returned ("none" before any)
\* op      the last call made
\* again   the last call found its object already stopped: Push or Finish on
\*         a finished Series, Next on an Iter that is finished or has failed

VARIABLES s, it, made, b, pushed, legal, yielded, ret, op, again

vars == <<s, it, made, b, pushed, legal, yielded, ret, op, again>>

\* The first n bytes of a byte sequence held as bits.
FirstBytes(bytes, n) == SubSeq(bytes, 1, 8 * n)

NumBytes(bytes) == Len(bytes) \div 8

\* The preconditions of Push: not finished, the first delta below 2^14.
\* (Every timestamp of Samples is below 2^31, so every later delta-of-delta
\* fits a signed 32-bit integer.)
LegalPush(t) ==
    /\ ~s.finished
    /\ Len(pushed) = 0 =>
         LET d == Sub32(t, s.t0)
         IN  SubSeq(d, 1, HeaderBits - FirstDeltaBits) = Zeros(HeaderBits - FirstDeltaBits)

Init ==
    /\ \E t0 \in T0s : s = New(t0)
    /\ it = NilIter
    /\ made = "none"
    /\ b = 0
    /\ pushed = <<>>
    /\ legal = TRUE
    /\ yielded = <<>>
    /\ ret = "none"
    /\ op = "New"
    /\ again = FALSE

Push(t, v) ==
    /\ made = "none"
    /\ Len(pushed) < MaxPush
    /\ s' = SeriesPush(s, t, v)
    /\ pushed' = Append(pushed, <<t, v>>)
    /\ legal' = (legal /\ LegalPush(t))
    /\ op' = "Push"
    /\ again' = s.finished
    /\ UNCHANGED <<it, made, b, yielded, ret>>

Finish ==
    /\ made = "none"
    /\ s' = SeriesFinish(s)
    /\ op' = "Finish"
    /\ again' = s.finished
    /\ UNCHANGED <<it, made, b, pushed, legal, yielded, ret>>

\* s.Iter(): the error of NewIterator is dropped.
Iter ==
    /\ made = "none"
    /\ LET r == SeriesIter(s)
       IN  /\ it' = r.it
           /\ made' = IF r.err = Nil THEN "ok" ELSE "err"
    /\ b' = NumBytes(Bytes(s))
    /\ op' = "Iter"
    /\ again' = FALSE
    /\ UNCHANGED <<s, pushed, legal, yielded, ret>>

\* NewIterator on the first n bytes of the encoder's bytes: the whole of
\* them, all but a few trailing bytes, or no more than the header.  (The
\* first four bytes are the same whatever was pushed, so the inputs of at
\* most four bytes are taken from the series before its first Push.)
MakeIterator(n) ==
    /\ made = "none"
    /\ LET r == NewIterator(FirstBytes(Bytes(s), n))
       IN  /\ it' = r.it
           /\ made' = IF r.err = Nil THEN "ok" ELSE "err"
    /\ b' = n
    /\ op' = "NewIterator"
    /\ again' = FALSE
    /\ UNCHANGED <<s, pushed, legal, yielded, ret>>

CallNext ==
    /\ made = "ok"
    /\ LET r == IterNext(it)
       IN  /\ it' = r.it
           /\ ret' = IF r.ret THEN "true" ELSE "false"
           /\ yielded' = IF r.ret THEN Append(yielded, Values(r.it)) ELSE yielded
    /\ op' = "Next"
    /\ again' = (it.err # Nil \/ it.finished)
    /\ UNCHANGED <<s, made, b, pushed, legal>>

InputLens ==
    {n \in 0..NumBytes(Bytes(s)) :
        \/ n <= HeaderBits \div 8 /\ pushed = <<>>
        \/ NumBytes(Bytes(s)) - n <= MaxDrop}

Next ==
    \/ \E x \in Samples : Push(x[1], x[2])
    \/ Finish
    \/ Iter
    \/ \E n \in InputLens : MakeIterator(n)
    \/ CallNext

Spec == Init /\ [][Next]_vars

\* ---------------------------------------------- decoding bytes of any origin
\* NewIterator takes any byte slice.  The second specification decodes byte
\* sequences that no encoder wrote: a fixed head (a header and one
\* first-sample record, or zero bytes) cut at any byte, or the whole head
\* followed by up to MaxTail bytes of a small alphabet.  The Series is
\* left as New made it.

Byte(n) == FromNat(n, 8)

\* 00000000, 11111111 and 01101010.
Alphabet == {Byte(0), Byte(255), Byte(106)}

\* The bit sequences of at most k bytes of the alphabet.
RECURSIVE Tails(_)
Tails(k) ==
    IF k = 0 THEN {<<>>}
    ELSE Tails(k - 1) \cup {x \o a : x \in Tails(k - 1), a \in Alphabet}

\* 14 bytes: t0 = 1000, the first-sample record of (1020, 1.0), two zero
\* bits; and 14 zero bytes (t0 = 0 and a first sample of timestamp 0).
Heads ==
    { U32(1000) \o FromNat(20, FirstDeltaBits) \o F1_0 \o <<0, 0>>,
      Zeros(112) }

ByteInputs ==
    {FirstBytes(h, n) : h \in Heads, n \in 0..14}
        \cup {h \o x : h \in Heads, x \in Tails(MaxTail)}

NewIteratorOn(x) ==
    /\ made = "none"
    /\ LET r == NewIterator(x)
       IN  /\ it' = r.it
           /\ made' = IF r.err = Nil THEN "ok" ELSE "err"
    /\ b' = NumBytes(x)
    /\ op' = "NewIterator"
    /\ again' = FALSE
    /\ UNCHANGED <<s, pushed, legal, yielded, ret>>

NextBytes ==
    \/ \E x \in ByteInputs : NewIteratorOn(x)
    \/ CallNext

SpecBytes == Init /\ [][NextBytes]_vars

\* ------------------------------------------------------------------ claims

IsPrefix(x, y) == Len(x) <= Len(y) /\ SubSeq(y, 1, Len(x)) = x

\* Every bit the encoder has written: the buffer and the pending byte.
Stream(e) == e.buf \o e.bw

\* A decoder of the whole of a finished series whose Push calls were legal.
DecodesLegalBlock ==
    /\ legal
    /\ s.finished
    /\ made = "ok"
    /\ b = NumBytes(Bytes(s))

\* The decoder has stopped: its last Next returned false.
Stopped == op = "Next" /\ ret = "false"

\* C1 (as claimed): decoding the finished bytes of a legal sample sequence
\* yields the pushed samples in order, timestamps and value bit patterns
\* equal, and all of them by the time Next returns false.
RoundTrip ==
    DecodesLegalBlock =>
        /\ IsPrefix(yielded, pushed)
        /\ Stopped => yielded = pushed

\* C2 (as claimed): on the finished bytes of a legal sample sequence, Next
\* returns true exactly Len(pushed) times, then false, with Err() nil.
TerminationRecognized ==
    DecodesLegalBlock =>
        /\ Len(yielded) <= Len(pushed)
        /\ Stopped => (Len(yielded) = Len(pushed) /\ Err(it) = Nil)

\* C3 (as claimed): New followed directly by Finish decodes to zero samples,
\* the first Next returning false, and Err() reports no error.
EmptyBlock ==
    (DecodesLegalBlock /\ pushed = <<>> /\ op = "Next") =>
        (ret = "false" /\ yielded = <<>> /\ Err(it) = Nil)

\* C4: Finish is idempotent.  Every Finish leaves the series finished, and a
\* Finish on a finished series changes neither the bytes nor any other part
\* of the encoder state, so the end-of-stream marker is written once.
FinishIdempotent ==
    [][op' = "Finish" => (s'.finished /\ (s.finished => s' = s))]_vars

\* C4 witness: a second Finish, after samples were pushed.
FinishedTwice ==
    op = "Finish" /\ again /\ Len(pushed) > 0

\* C5: the decoder's error is sticky.  A Next that returns false without the
\* end-of-stream marker has latched an error; a Next with an error latched
\* returns false; and Next on an iterator that holds an error changes
\* nothing of it (error, bits consumed, timestamp, value, window).
StickyError ==
    [][op' = "Next" =>
         /\ (ret' = "false" /\ ~it'.finished) => Err(it') # Nil
         /\ Err(it') # Nil => ret' = "false"
         /\ Err(it) # Nil => (it' = it /\ yielded' = yielded)]_vars

\* C5 witness: Next called again on an iterator that failed inside a record
\* and still holds unread bits.
NextAfterError ==
    op = "Next" /\ again /\ Err(it) = EOF /\ Len(it.br) > 0 /\ Len(yielded) > 0

\* C6: the end-of-stream marker ends the iteration without an error.  A Next
\* that parses a later record and finds 1111 followed by 32 one bits sets
\* finished, returns false, latches no error and leaves the sample alone;
\* finished and an error never hold together; and Next on a finished
\* iterator returns false and changes nothing, so no sample follows.
EndOfStreamAbsorbing ==
    [][op' = "Next" =>
         /\ (Err(it) = Nil /\ ~it.finished /\ it.t # Zero32 /\ IsPrefix(Ones(36), it.br))
              => (it'.finished /\ ret' = "false" /\ Err(it') = Nil
                  /\ Values(it') = Values(it) /\ yielded' = yielded)
         /\ it'.finished => Err(it') = Nil
         /\ it.finished => (it' = it /\ ret' = "false" /\ yielded' = yielded)]_vars

\* C6 witness: Next called again after the marker was read, with padding
\* bits still unread.
NextAfterMarker ==
    op = "Next" /\ again /\ it.finished /\ Len(it.br) > 1 /\ Len(yielded) > 0

\* C7 (as claimed): a Next that returns false leaves the pair returned by
\* Values() unchanged.
ValuesKeptOnFalse ==
    [][(op' = "Next" /\ ret' = "false") => Values(it') = Values(it)]_vars

\* C8: NewIterator fails exactly on fewer than 4 bytes, returning no
\* iterator; otherwise the iterator's t0 is the first 32 bits of the input.
NewIteratorHeader ==
    made # "none" =>
        /\ made = "err" <=> 8 * b < HeaderBits
        /\ made = "err" => it = NilIter
        /\ made = "ok" => it.t0 = SubSeq(FirstBytes(Bytes(s), b), 1, HeaderBits)

\* C8 witness: NewIterator refused three bytes of a block anchored at 1000.
RefusedThreeBytes ==
    op = "NewIterator" /\ made = "err" /\ b = 3 /\ s.t0 = U32(1000)

\* C9: the first 32 bits of Bytes() are t0, most significant bit first, in
\* every encoder state.
HeaderExact ==
    /\ Len(Bytes(s)) >= HeaderBits
    /\ SubSeq(Bytes(s), 1, HeaderBits) = s.t0
    /\ s.t0 \in T0s

\* C9 witness: a block anchored at 1000 after three Push calls and Finish.
HeaderAfterPushes ==
    s.t0 = U32(1000) /\ Len(pushed) = 3 /\ s.finished

\* C10: Push only appends.  The bits written before a Push are a prefix of
\* the bits after it, the same holds of Bytes(), and every Push after the
\* first appends at least 2 bits.
MonotonePush ==
    [][op' = "Push" =>
         /\ IsPrefix(Stream(s), Stream(s'))
         /\ IsPrefix(Bytes(s), Bytes(s'))
         /\ Len(pushed) >= 1 => Len(Stream(s')) >= Len(Stream(s)) + 2]_vars

\* C10 witness: a third Push that appended exactly 2 bits to what the first
\* two had written.
PushOfTwoBits ==
    /\ op = "Push"
    /\ Len(pushed) = 3
    /\ ~s.finished
    /\ LET s1 == SeriesPush(New(s.t0), pushed[1][1], pushed[1][2])
           s2 == SeriesPush(s1, pushed[2][1], pushed[2][2])
       IN  Len(Stream(s)) = Len(Stream(s2)) + 2

\* C11 (as claimed): a finished encoder is immutable.  A Push or a Finish on
\* a finished series changes neither Bytes() nor the compression state
\* (previous timestamp, previous delta, previous value, window).
FinishedImmutable ==
    [][(s.finished /\ op' \in {"Push", "Finish"}) =>
         /\ Bytes(s') = Bytes(s)
         /\ s'.t = s.t /\ s'.tDelta = s.tDelta /\ s'.val = s.val
         /\ s'.leading = s.leading /\ s'.trailing = s.trailing]_vars

\* The bits of encoder e followed by the first-sample record of (t, v): the
\* low 14 bits of t - t0, then the 64 raw bits of v.
WithFirstRecord(e, t, v) ==
    Stream(e) \o SubSeq(Sub32(t, e.t0), HeaderBits - FirstDeltaBits + 1, HeaderBits) \o v

\* The record a Next has consumed: the bits gone from the reader.
Consumed(old, new) == SubSeq(old.br, 1, Len(old.br) - Len(new.br))

\* C12 (as claimed): the lifecycle is one-way, also through timestamp 0.  On
\* legal input, a Push after the first does not write a first-sample record,
\* a Next after the first true Next does not read 14 + 64 bits as a
\* first-sample record, and an encoder or decoder that has seen a sample is
\* not in the state its code treats as Fresh (previous timestamp 0).
OneWayLifecycle ==
    [][/\ (op' = "Push" /\ legal' /\ pushed # <<>>) =>
            Stream(s') # WithFirstRecord(s, pushed'[Len(pushed')][1],
                                         pushed'[Len(pushed')][2])
       /\ (legal' /\ pushed' # <<>>) => s'.t # Zero32
       /\ (op' = "Next" /\ DecodesLegalBlock /\ ret' = "true" /\ yielded # <<>>) =>
            ~(/\ Len(Consumed(it, it')) = FirstDeltaBits + ValueBits
              /\ it'.tDelta = Low32(ZeroExt64(SubSeq(it.br, 1, FirstDeltaBits)))
              /\ it'.val = SubSeq(it.br, FirstDeltaBits + 1, FirstDeltaBits + ValueBits))
       /\ (DecodesLegalBlock /\ yielded' # <<>>) => it'.t # Zero32]_vars

\* The sample given to the latest Push.
LastPushed == pushed[Len(pushed)]

\* The bits a step has appended to the encoder's stream.
Written(old, new) == SubSeq(Stream(new), Len(Stream(old)) + 1, Len(Stream(new)))

\* The tiers of the delta-of-delta code as the claim states them: the first
\* range, in this order, that holds dod.
TierOf(dod) ==
    IF dod = 0 THEN 1
    ELSE IF 0 - 63 <= dod /\ dod <= 64 THEN 2
    ELSE IF 0 - 255 <= dod /\ dod <= 256 THEN 3
    ELSE IF 0 - 2047 <= dod /\ dod <= 2048 THEN 4
    ELSE 5

TierPrefix(k) == <<  <<0>>, <<1, 0>>, <<1, 1, 0>>, <<1, 1, 1, 0>>, <<1, 1, 1, 1>>  >>[k]

TierWidth(k) == <<0, 7, 9, 12, 32>>[k]

\* The decoder's sign rule on an n-bit payload u: u > 2^(n-1) means u - 2^n.
\* (n is 7, 9 or 12; the 32-bit payload is the two's-complement pattern.)
SignRule(payload, n) ==
    LET u == ToNat(payload)
    IN  IF u > 2^(n - 1) THEN u - 2^n ELSE u

\* A Push of timestamp t has taken encoder old to new and written the
\* delta-of-delta by its tier: prefix and payload of the first tier holding
\* dod, a payload the decoder's sign rule turns back into dod.
DodWrittenByTier(old, new, t) ==
    LET dodBits == Sub32(Sub32(t, old.t), old.tDelta)
        dod == ToInt32(dodBits)
        k == TierOf(dod)
        payload == SubSeq(dodBits, HeaderBits - TierWidth(k) + 1, HeaderBits)
    IN  /\ IsPrefix(TierPrefix(k) \o payload, Written(old, new))
        /\ k \in {2, 3, 4} => SignRule(payload, TierWidth(k)) = dod
        /\ k = 5 => (ToInt32(payload) = dod /\ payload # Ones(32))

\* C13 (as claimed): every Push after the first (on legal input) writes its
\* delta-of-delta (32-bit wrap-around, read as signed) with the prefix and
\* payload width of the first tier that holds it, and the decoder's sign
\* rule gives dod back.
TierPerDod ==
    [][(op' = "Push" /\ legal' /\ pushed # <<>>) =>
         DodWrittenByTier(s, s', LastPushed'[1])]_vars

\* What holds instead: the same of every Push that takes the delta path of
\* the code (previous timestamp not 0), legal or not.
TierPerDodOnDeltaPath ==
    [][(op' = "Push" /\ s.t # Zero32) => DodWrittenByTier(s, s', LastPushed'[1])]_vars

\* The encoder after New(t0) and the Push calls of seq, in order.
RECURSIVE Encode(_, _)
Encode(t0, seq) ==
    IF seq = <<>> THEN New(t0)
    ELSE LET last == seq[Len(seq)]
         IN  SeriesPush(Encode(t0, SubSeq(seq, 1, Len(seq) - 1)), last[1], last[2])

\* C14 (as claimed): no end-of-stream mimicry on legal input.  No Push after
\* the first starts its record with 1111 and 32 one bits; the decoder of
\* the finished stream is not finished before it has yielded every pushed
\* sample; and the 36 bits it matched as the end of the stream are the 36
\* bits Finish wrote behind the records of the pushed samples.
NoEndOfStreamMimicry ==
    /\ (op = "Push" /\ legal /\ Len(pushed) > 1) =>
         LET before == Encode(s.t0, SubSeq(pushed, 1, Len(pushed) - 1))
         IN  ~IsPrefix(Ones(36), Written(before, Encode(s.t0, pushed)))
    /\ (DecodesLegalBlock /\ it.finished) =>
         /\ Len(yielded) = Len(pushed)
         /\ Len(Bytes(s)) - Len(it.br) = Len(Stream(Encode(s.t0, pushed))) + 36

\* The value record of a Push of timestamp t that took encoder old to new on
\* the delta path: what was written behind the delta-of-delta record.
ValueRecord(old, new, t) ==
    LET k == TierOf(ToInt32(Sub32(Sub32(t, old.t), old.tDelta)))
        w == Written(old, new)
    IN  SubSeq(w, Len(TierPrefix(k)) + TierWidth(k) + 1, Len(w))

\* A value record with control bits 1,1: a new window.
IsNewWindow(vr) == IsPrefix(<<1, 1>>, vr)

\* The fields and the payload of a new-window record.
LeadingField(vr) == ToNat(SubSeq(vr, 3, 2 + LeadingBits))

SigField(vr) == ToNat(SubSeq(vr, 3 + LeadingBits, 2 + LeadingBits + SigBits))

Payload(vr) == SubSeq(vr, 3 + LeadingBits + SigBits, Len(vr))

\* C15 (as claimed): the leading field is invertible.  Whenever Push writes
\* a new-window record, the 5-bit field holds the leading count the encoder
\* keeps (at most 31), and the window a decoder takes from the fields
\* (leading, 64 - leading - sigbits) is the encoder's window.
LeadingInvertible ==
    [][(op' = "Push" /\ s.t # Zero32
          /\ IsNewWindow(ValueRecord(s, s', LastPushed'[1]))) =>
         LET vr == ValueRecord(s, s', LastPushed'[1])
         IN  /\ s'.leading <= 31
             /\ LeadingField(vr) = s'.leading
             /\ 64 - LeadingField(vr) - SigField(vr) = s'.trailing]_vars

\* C16 (as claimed): the significant-bits field of a new-window record is
\* never 0 and is the number of payload bits written, which is the number
\* of payload bits the decoder reads (64 - leading - trailing = the field).
SigBitsNeverZero ==
    [][(op' = "Push" /\ s.t # Zero32
          /\ IsNewWindow(ValueRecord(s, s', LastPushed'[1]))) =>
         LET vr == ValueRecord(s, s', LastPushed'[1])
         IN  /\ SigField(vr) \in 1..63
             /\ SigField(vr) = Len(Payload(vr))]_vars

\* C17: the window invariant.  In every encoder state whose leading is not
\* the sentinel, leading and trailing are counts with leading + trailing
\* below 64, so the payload width 64 - leading - trailing of a reuse record
\* is positive; a window once set is never replaced by the sentinel; and the
\* sentinel is left only by a Push on the delta path whose value differs
\* from the previous value (a non-zero XOR).
WindowInvariant ==
    /\ [](s.leading # Sentinel =>
            (s.leading >= 0 /\ s.trailing >= 0 /\ s.leading + s.trailing < 64))
    /\ [][/\ s.leading # Sentinel => s'.leading # Sentinel
          /\ (s.leading = Sentinel /\ s'.leading # Sentinel) =>
               (op' = "Push" /\ s.t # Zero32 /\ LastPushed'[2] # s.val)]_vars

\* C17 witness: three Push calls, the second setting the window of
\* 1.0 XOR 1.5 (12 leading and 51 trailing zeros), the third writing a reuse
\* record of 64 - 12 - 51 = 1 payload bit.
WindowSetThenReused ==
    /\ op = "Push"
    /\ Len(pushed) = 3
    /\ s = Encode(s.t0, pushed)
    /\ s.leading = 12 /\ s.trailing = 51
    /\ LET before == Encode(s.t0, SubSeq(pushed, 1, 2))
           vr == ValueRecord(before, s, LastPushed[1])
       IN  before.leading = 12 /\ before.t # Zero32 /\ vr = <<1, 0, 1>>

\* A Push of (t, v) has taken encoder old to new by the reuse branch: behind
\* the delta-of-delta record it wrote control bits 1,0 and the
\* 64 - leading - trailing bits of the XOR above the stored trailing.
ReuseRecordWritten(old, new, t, v) ==
    /\ old.leading # Sentinel
    /\ DodWrittenByTier(old, new, t)
    /\ ValueRecord(old, new, t) =
         <<1, 0>> \o SubSeq(Shr64(Xor64(v, old.val), old.trailing),
                            old.leading + old.trailing + 1, 64)

\* A Push of (t, v) has taken encoder old to new as the claim describes it:
\* a non-zero XOR by the reuse branch exactly when a window exists and holds
\* the XOR; the window unchanged by the reuse branch and by a zero XOR.
ValueWrittenByWindow(old, new, t, v) ==
    LET x == Xor64(v, old.val)
        fits == /\ old.leading # Sentinel
                /\ Clz(x) >= old.leading
                /\ Ctz(x) >= old.trailing
        kept == new.leading = old.leading /\ new.trailing = old.trailing
    IN  /\ x = Zero64 => kept
        /\ x # Zero64 => (ReuseRecordWritten(old, new, t, v) <=> fits)
        /\ ReuseRecordWritten(old, new, t, v) => kept

\* The width of the delta-of-delta record at the head of a bit sequence.
HeadDodWidth(bits) ==
    LET ones == IF bits = <<>> \/ bits[1] = 0 THEN 0
                ELSE IF Len(bits) < 2 \/ bits[2] = 0 THEN 1
                ELSE IF Len(bits) < 3 \/ bits[3] = 0 THEN 2
                ELSE IF Len(bits) < 4 \/ bits[4] = 0 THEN 3
                ELSE 4
    IN  Len(TierPrefix(ones + 1)) + TierWidth(ones + 1)

\* A Next has taken decoder old to new and changed the window only on a
\* value record with control bits 1,1 behind a delta-of-delta record.
WindowKeptByDecoder(old, new) ==
    (new.leading # old.leading \/ new.trailing # old.trailing) =>
        LET c == Consumed(old, new)
        IN  /\ old.t # Zero32
            /\ IsNewWindow(SubSeq(c, HeadDodWidth(c) + 1, Len(c)))

\* C18 (as claimed): window reuse.  Every Push after the first (on legal
\* input) writes its value by the window rule, and every Next leaves the
\* decoder's window unchanged unless the control bits are 1,1.
WindowReuse ==
    [][/\ (op' = "Push" /\ legal' /\ pushed # <<>>) =>
            ValueWrittenByWindow(s, s', LastPushed'[1], LastPushed'[2])
       /\ op' = "Next" => WindowKeptByDecoder(it, it')]_vars

\* What holds instead: the same of every Push that takes the delta path of
\* the code (previous timestamp not 0), legal or not, and of every Next.
WindowReuseOnDeltaPath ==
    [][/\ (op' = "Push" /\ s.t # Zero32) =>
            ValueWrittenByWindow(s, s', LastPushed'[1], LastPushed'[2])
       /\ op' = "Next" => WindowKeptByDecoder(it, it')]_vars

\* C19 (as claimed): the decoder's state mirrors the encoder's.  Decoding
\* the finished bytes of a legal sample sequence, after the k-th true Next
\* the decoder's previous timestamp, previous delta and previous value are
\* those of the encoder after the k-th Push, and so is its window once the
\* encoder has set one.
DecoderMirrorsEncoder ==
    (DecodesLegalBlock /\ op = "Next" /\ ret = "true" /\ Len(yielded) <= Len(pushed)) =>
        LET e == Encode(s.t0, SubSeq(pushed, 1, Len(yielded)))
        IN  /\ it.t = e.t
            /\ it.tDelta = e.tDelta
            /\ it.val = e.val
            /\ e.leading # Sentinel =>
                 (it.leading = e.leading /\ it.trailing = e.trailing)

\* C20: decoding terminates on every byte sequence NewIterator accepts.
\* Every Next that returns true consumes at least 2 bits and no Next gives
\* bits back, so the true returns number at most half the bits behind the
\* header and a false return comes after finitely many calls; a Next that
\* returns false leaves the iterator either finished or with an error, never
\* both; and from then on every Next returns false.
DecodingTerminates ==
    /\ [][op' = "Next" =>
            /\ ret' = "true" => Len(it'.br) + 2 <= Len(it.br)
            /\ Len(it'.br) <= Len(it.br)
            /\ ret' = "false" => (it'.finished <=> Err(it') = Nil)
            /\ (op = "Next" /\ ret = "false") => ret' = "false"]_vars
    /\ [](~(it.finished /\ Err(it) # Nil))
    /\ [](made = "ok" => 2 * Len(yielded) + Len(it.br) <= 8 * b - HeaderBits)

\* C20 witness: 16 bytes no encoder wrote, decoded to the end: the first
\* record and nine records of 2 bits each, then false with io.EOF.
StoppedAfterShortRecords ==
    /\ Stopped
    /\ s = New(s.t0) /\ pushed = <<>>
    /\ b = 16
    /\ Len(yielded) = 10
    /\ Err(it) = EOF /\ ~it.finished /\ it.br = <<>>

====
